---- MODULE Spec2Model ----
(***************************************************************************)
(* Model of pdf-batch-redaction.py: the span location and redaction        *)
(* decision of redaction(), the batch loop of batch_redact() and the       *)
(* prompt / log / delete steps of the __main__ block.                      *)
(*                                                                         *)
(* Text is a sequence of tokens.  A token is one character ("\n", "/",     *)
(* "n", "a", "N", "A") or one fixed phrase of the documents ("Story Link   *)
(* 1", "SECRET", ...).  Offsets and lengths are counted in tokens, so      *)
(* str.index, the slice text[a:b], the operator `in` and str.lower keep    *)
(* their Python meaning; the start marker ends with the "\n" token and     *)
(* every end marker begins with it, as in the source.                      *)
(***************************************************************************)
EXTENDS Integers, Sequences, FiniteSets, TLC

\* ------------------------------------------------------------------ bounds
MaxPieces == 3
MaxPages == 2
MaxFiles == 2
MaxRects == 1

\* ------------------------------------------------------- python primitives
None == <<"None">>
Unbound == <<"Unbound">>
NoneStr == "None"
UnboundStr == "Unbound"

Min(a, b) == IF a < b THEN a ELSE b

\* sub in text
Contains(text, sub) ==
    \E i \in 0..(Len(text) - Len(sub)) : SubSeq(text, i + 1, i + Len(sub)) = sub

\* text.index(sub): lowest 0-based offset; only evaluated where Contains holds
\* (the ValueError branch is taken by the caller otherwise)
Index(text, sub) ==
    CHOOSE i \in 0..(Len(text) - Len(sub)) :
        /\ SubSeq(text, i + 1, i + Len(sub)) = sub
        /\ \A j \in 0..(i - 1) : SubSeq(text, j + 1, j + Len(sub)) # sub

\* text[a:b] for a, b >= 0: bounds are clamped, crossed bounds give ''
Slice(text, a, b) ==
    LET lo == Min(a, Len(text))
        hi == Min(b, Len(text))
    IN  IF lo >= hi THEN <<>> ELSE SubSeq(text, lo + 1, hi)

LowerTok(c) ==
    CASE c = "N" -> "n"
      [] c = "Y" -> "y"
      [] c = "A" -> "a"
      [] c = "SECRET" -> "secret"
      [] c = "Login and Password information if needed" ->
             "login and password information if needed"
      [] c = "Story Link 1" -> "story link 1"
      [] c = "Video Upload 1" -> "video upload 1"
      [] c = "Publication, " -> "publication, "
      [] OTHER -> c

\* str.lower()
Lower(s) == [i \in 1..Len(s) |-> LowerTok(s[i])]

StartsWith(s, p) == Len(s) >= Len(p) /\ SubSeq(s, 1, Len(p)) = p
EndsWith(s, p) == Len(s) >= Len(p) /\ SubSeq(s, Len(s) - Len(p) + 1, Len(s)) = p

\* ------------------------------------------------------------ the markers
start_redact == <<"Login and Password information if needed", "\n">>
end_redact1 == <<"\n", "Story Link 1">>
end_redact2 == <<"\n", "Video Upload 1">>
end_redact3 == <<"\n", "Publication, ">>
CheckFile == "CHECK FILE: Potential redaction found but not completed"
NeedsReview == "ERROR - needs review"
Placeholders == {<<"n", "/", "a">>, <<"n", "a">>}

\* ------------------------------------------------------------- page texts
Pieces ==
    { start_redact, end_redact1, end_redact2, end_redact3,
      <<"Login and Password information if needed">>,
      <<"SECRET">>, <<"n", "/", "a">>, <<"N", "A">> }

RECURSIVE TextsOf(_)
TextsOf(n) ==
    IF n = 0 THEN {<<>>}
    ELSE LET T == TextsOf(n - 1) IN T \cup {t \o p : t \in T, p \in Pieces}

\* every page text made of at most MaxPieces pieces
Texts == TextsOf(MaxPieces)

\* the page texts of the documents of a batch run
DocTexts ==
    { <<"SECRET">>,
      start_redact \o <<"SECRET">> \o end_redact1,
      start_redact \o <<"SECRET">> \o end_redact2,
      end_redact1,
      end_redact2,
      start_redact \o <<"n", "/", "a">> \o end_redact1,
      end_redact1 \o start_redact }

\* ------------------------------------------------------------- file names
Stems == <<"a", "b", "c", "d">>
Date == "date"
Header == [File |-> <<"File">>, Date_redacted |-> "Date_redacted", Notes |-> {"Notes"}]
LogName == <<"redactionlog_", Date, ".csv">>

\* the i-th original document of the directory
OrigName(i) ==
    <<IF i % 2 = 1 THEN "Application-" ELSE "Judge-", Stems[i], ".pdf">>

\* files of the directory that are no candidates for redaction
OtherFiles == { <<"Judge-", "z", "_redacted", ".pdf">>, <<"notes", ".txt">> }

\* Eligible, the files already carrying the redaction suffix let through
EligibleAnyPdf(filename) ==
    /\ StartsWith(filename, <<"Application-">>) \/ StartsWith(filename, <<"Judge-">>)
    /\ EndsWith(filename, <<".pdf">>)

\* the filter of find_files_in_dir
Eligible(filename) ==
    /\ StartsWith(filename, <<"Application-">>) \/ StartsWith(filename, <<"Judge-">>)
    /\ EndsWith(filename, <<".pdf">>)
    /\ ~EndsWith(filename, <<"_redacted", ".pdf">>)

find_files_in_dir(entries) == {e \in entries : Eligible(e)}

find_redaction_log(entries) ==
    IF \E e \in entries : \E i \in 1..Len(e) : e[i] = "redactionlog_"
    THEN CHOOSE e \in entries : \E i \in 1..Len(e) : e[i] = "redactionlog_"
    ELSE None

\* file.split(".pdf")[0]
SplitPdf(file) ==
    IF \E i \in 1..Len(file) : file[i] = ".pdf"
    THEN LET k == CHOOSE i \in 1..Len(file) :
                      file[i] = ".pdf" /\ \A j \in 1..(i - 1) : file[j] # ".pdf"
         IN  SubSeq(file, 1, k - 1)
    ELSE file

\* newname, the document saved under its own name
SameName(file) == file

newname(file) == SplitPdf(file) \o <<"_redacted", ".pdf">>

\* LogRow, the note left out of the row
LogRowNoNote(file, err) ==
    [File |-> file, Date_redacted |-> Date, Notes |-> {NoneStr}]

\* the row log_file(file, error) writes
LogRow(file, err) == [File |-> file, Date_redacted |-> Date, Notes |-> {err}]

\* ------------------------------------------------------- the span locator
\* Span, the slice starting at the start marker instead of after it
SpanFromMarker(t, end_redact) ==
    Slice(t, Index(t, start_redact), Index(t, end_redact))

\* text[text.index(start_redact)+len(start_redact):text.index(end_redact)]
Span(t, end_redact) ==
    Slice(t, Index(t, start_redact) + Len(start_redact), Index(t, end_redact))

\* one "if end_redactN in text" block; st = [result, error, rows, exc]
TryCandidate(st, t, end_redact, first, file) ==
    IF st.exc # "none" \/ ~Contains(t, end_redact) THEN st
    ELSE LET e == IF first THEN CheckFile ELSE st.error
         IN  IF Contains(t, start_redact)
             THEN [st EXCEPT !.error = e, !.result = Span(t, end_redact)]
             ELSE IF e = UnboundStr
                  THEN [st EXCEPT !.exc = "UnboundLocalError"]
                  ELSE [st EXCEPT !.error = e,
                                  !.rows = Append(@, LogRow(file, e)),
                                  !.result = None]

\* Locate, the candidates tried in the opposite order
LocateReversed(t, err, file) ==
    LET s0 == [result |-> None, error |-> err, rows |-> <<>>, exc |-> "none"]
        s1 == TryCandidate(s0, t, end_redact3, FALSE, file)
        s2 == TryCandidate(s1, t, end_redact2, FALSE, file)
    IN  TryCandidate(s2, t, end_redact1, TRUE, file)

\* the three blocks in turn, starting from result = None
Locate(t, err, file) ==
    LET s0 == [result |-> None, error |-> err, rows |-> <<>>, exc |-> "none"]
        s1 == TryCandidate(s0, t, end_redact1, TRUE, file)
        s2 == TryCandidate(s1, t, end_redact2, FALSE, file)
    IN  TryCandidate(s2, t, end_redact3, FALSE, file)

\* IsPlaceholder, the span compared as it is written
IsPlaceholderExact(res) == res \in Placeholders

\* result.lower() in ['n/a', 'na']
IsPlaceholder(res) == Lower(res) \in Placeholders

\* whether the page is redacted: result != None and not a placeholder
ToRedact(res) == res # None /\ ~IsPlaceholder(res)

\* number of rectangles page.search_for(result) returns when the text layer
\* holds n matches: nothing matches the empty string
search_for(res, n) == IF res = <<>> THEN 0 ELSE n

NoOps == [searched |-> FALSE, annots |-> 0, applied |-> FALSE]

\* ------------------------------------------------------------------ state
VARIABLES
    pc,           \* position of the program
    optional_arg, \* sys.argv[2], or 'null'
    answer,       \* what the user will type at the prompt
    confirm,      \* the answer read by input(), None before the prompt
    fs,           \* names of the files of the directory
    logrows,      \* rows of the redaction log file
    todo,         \* entries find_files_in_dir has still to yield
    filepath,     \* batch_redact: path of the current entry
    f,            \* batch_redact: result of the last redaction() that returned
    files,        \* batch_redact: paths collected so far
    sensitive,    \* __main__: files still to be deleted in replace mode
    exc,          \* the exception in flight, or the one that ended the program
    pageno,       \* redaction: pages of the open document read so far
    text,         \* redaction: text of the last page read
    result,       \* redaction: span located on the last page read
    error,        \* redaction: the local `error`, unbound until first assigned
    file_stat,    \* redaction: 'Unredacted' or 'Redacted'
    page_ops,     \* what was asked of the last page read (search, annots, apply)
    doc_removed,  \* regions removed so far from the open document
    pagerows,     \* rows log_file wrote while the last page was read
    ambiguous,    \* the open document had a page with an end marker and no start marker
    outcome       \* how redaction() ended for each file processed so far

vars == <<pc, optional_arg, answer, confirm, fs, logrows, todo, filepath, f, files,
          sensitive, exc, pageno, text, result, error, file_stat, page_ops,
          doc_removed, pagerows, ambiguous, outcome>>

mainVars == <<optional_arg, answer, confirm, sensitive>>
batchVars == <<todo, filepath, f, files>>
docVars == <<pageno, text, result, error, file_stat, page_ops, doc_removed,
             pagerows, ambiguous>>

Answers == {"Y", "N", "n"}
Modes == {"null", "replace"}

\* the directory before the run: originals, other files, perhaps an older log
Dirs ==
    { {OrigName(i) : i \in 1..k} \cup OtherFiles \cup l :
          k \in 1..MaxFiles, l \in {{}, {LogName}} }

ClosedDoc ==
    /\ pageno = 0
    /\ text = <<>>
    /\ result = None
    /\ error = UnboundStr
    /\ file_stat = "Unredacted"
    /\ page_ops = NoOps
    /\ doc_removed = 0
    /\ pagerows = <<>>
    /\ ambiguous = FALSE

\* line 129 and the fresh locals of a call of redaction(); the locals of the
\* call before are gone
OpenDoc ==
    /\ pageno' = 0
    /\ text' = <<>>
    /\ result' = None
    /\ error' = UnboundStr
    /\ file_stat' = "Unredacted"
    /\ page_ops' = NoOps
    /\ doc_removed' = 0
    /\ pagerows' = <<>>
    /\ ambiguous' = FALSE

Init ==
    /\ pc = "main"
    /\ optional_arg \in Modes
    /\ answer \in Answers
    /\ confirm = NoneStr
    /\ fs \in Dirs
    /\ logrows = IF LogName \in fs THEN <<Header>> ELSE <<>>
    /\ todo = {}
    /\ filepath = None
    /\ f = Unbound
    /\ files = <<>>
    /\ sensitive = <<>>
    /\ exc = "none"
    /\ ClosedDoc
    /\ outcome = <<>>

\* --------------------------------------------------------------- __main__
\* lines 222-233: find the log or create it with its header, then open it
MainLog ==
    /\ pc = "main"
    /\ IF find_redaction_log(fs) # None
       THEN UNCHANGED <<fs, logrows>>
       ELSE /\ fs' = fs \cup {LogName}
            /\ logrows' = <<Header>>
    /\ pc' = "prompt"
    /\ UNCHANGED <<mainVars, batchVars, docVars, exc, outcome>>

\* lines 236-249: the prompt of either mode; Y starts batch_redact (line 200)
MainPrompt ==
    /\ pc = "prompt"
    /\ confirm' = answer
    /\ IF LowerTok(answer) = "y"
       THEN /\ pc' = "loop"
            /\ todo' = find_files_in_dir(fs)
            /\ files' = <<>>
       ELSE /\ pc' = "done"
            /\ UNCHANGED <<todo, files>>
    /\ UNCHANGED <<optional_arg, answer, fs, logrows, filepath, f, sensitive, exc,
                   docVars, outcome>>

\* lines 239-242: os.remove of each returned path, then the for-else exit()
MainRemove ==
    /\ pc = "remove"
    /\ IF sensitive = <<>>
       THEN /\ pc' = "done"
            /\ UNCHANGED <<fs, sensitive, exc>>
       ELSE IF Head(sensitive) \in fs
            THEN /\ fs' = fs \ {Head(sensitive)}
                 /\ sensitive' = Tail(sensitive)
                 /\ UNCHANGED <<pc, exc>>
            ELSE /\ pc' = "crashed"
                 /\ exc' = "FileNotFoundError"
                 /\ UNCHANGED <<fs, sensitive>>
    /\ UNCHANGED <<optional_arg, answer, confirm, logrows, batchVars, docVars, outcome>>

\* ----------------------------------------------------------- batch_redact
\* lines 202-208 and 127-129: next entry, redaction() opens the document
BatchNext ==
    /\ pc = "loop"
    /\ \E entry \in todo, readable \in BOOLEAN :
        /\ todo' = todo \ {entry}
        /\ filepath' = entry
        /\ IF readable
           THEN pc' = "page" /\ exc' = "none"
           ELSE pc' = "except" /\ exc' = "FileDataError"
    /\ UNCHANGED <<mainVars, fs, logrows, f, files, docVars, outcome>>

\* line 217: the entries are exhausted, batch_redact returns files
BatchReturn ==
    /\ pc = "loop"
    /\ todo = {}
    /\ IF LowerTok(optional_arg) = "replace"
       THEN pc' = "remove" /\ sensitive' = files
       ELSE pc' = "done" /\ sensitive' = sensitive
    /\ UNCHANGED <<optional_arg, answer, confirm, fs, logrows, batchVars, exc,
                   docVars, outcome>>

\* lines 209-211: the except clause around redaction()
BatchExcept ==
    /\ pc = "except"
    /\ logrows' = Append(logrows, LogRow(filepath, NeedsReview))
    /\ outcome' = Append(outcome, [file |-> filepath, stat |-> "Failed"])
    /\ pc' = "after"
    /\ exc' = "none"
    /\ UNCHANGED <<mainVars, fs, batchVars, docVars>>

\* BatchAfter, the path logged but not collected
BatchAfterNoAppend ==
    /\ pc = "after"
    /\ IF f = Unbound
       THEN /\ pc' = "crashed"
            /\ exc' = "UnboundLocalError"
            /\ UNCHANGED <<logrows, files, docVars>>
       ELSE /\ pc' = "loop"
            /\ exc' = exc
            /\ OpenDoc
            /\ IF f # None
               THEN /\ logrows' = Append(logrows, LogRow(f, NoneStr))
                    /\ files' = files
               ELSE UNCHANGED <<logrows, files>>
    /\ UNCHANGED <<mainVars, fs, todo, filepath, f, outcome>>

\* lines 213-215: f is read, unbound if no redaction() has returned yet
BatchAfter ==
    /\ pc = "after"
    /\ IF f = Unbound
       THEN /\ pc' = "crashed"
            /\ exc' = "UnboundLocalError"
            /\ UNCHANGED <<logrows, files, docVars>>
       ELSE /\ pc' = "loop"
            /\ exc' = exc
            /\ OpenDoc
            /\ IF f # None
               THEN /\ logrows' = Append(logrows, LogRow(f, NoneStr))
                    /\ files' = Append(files, f)
               ELSE UNCHANGED <<logrows, files>>
    /\ UNCHANGED <<mainVars, fs, todo, filepath, f, outcome>>

\* -------------------------------------------------------------- redaction
\* lines 131-173: one iteration of "for page in doc" on a page with text t
\* whose text layer holds n matches of the located span
ReadPage(t, n) ==
    LET st == Locate(t, error, filepath)
        rects == search_for(st.result, n)
    IN  /\ text' = t
        /\ error' = st.error
        /\ result' = st.result
        /\ pagerows' = st.rows
        /\ logrows' = logrows \o st.rows
        /\ pageno' = pageno + 1
        /\ ambiguous' = (ambiguous \/
              (/\ ~Contains(t, start_redact)
               /\ \E e \in {end_redact1, end_redact2, end_redact3} : Contains(t, e)))
        /\ IF st.exc # "none"
           THEN /\ pc' = "except"
                /\ exc' = st.exc
                /\ page_ops' = NoOps
                /\ UNCHANGED <<file_stat, doc_removed>>
           ELSE /\ UNCHANGED <<pc, exc>>
                /\ IF ToRedact(st.result)
                   THEN /\ page_ops' = [searched |-> TRUE, annots |-> rects,
                                        applied |-> TRUE]
                        /\ doc_removed' = doc_removed + rects
                        /\ file_stat' = "Redacted"
                   ELSE /\ page_ops' = NoOps
                        /\ UNCHANGED <<file_stat, doc_removed>>

RedactionPage(T) ==
    /\ pc = "page"
    /\ pageno < MaxPages
    /\ \E t \in T, n \in 0..MaxRects : ReadPage(t, n)
    /\ UNCHANGED <<mainVars, fs, batchVars, outcome>>

\* lines 175-180: after the last page, save and return the path, or return None
RedactionEnd ==
    /\ pc = "page"
    /\ pageno >= 1
    /\ IF file_stat = "Redacted"
       THEN /\ fs' = fs \cup {newname(filepath)}
            /\ f' = filepath
            /\ outcome' = Append(outcome, [file |-> filepath, stat |-> "Redacted"])
       ELSE /\ fs' = fs
            /\ f' = None
            /\ outcome' = Append(outcome,
                  [file |-> filepath,
                   stat |-> IF ambiguous THEN "Flagged" ELSE "Unredacted"])
    /\ pc' = "after"
    /\ UNCHANGED <<mainVars, logrows, todo, filepath, files, exc, docVars>>

\* ---------------------------------------------------------- specifications
\* the whole program, the pages of its documents drawn from DocTexts
Next ==
    \/ MainLog
    \/ MainPrompt
    \/ BatchNext
    \/ RedactionPage(DocTexts)
    \/ RedactionEnd
    \/ BatchExcept
    \/ BatchAfter
    \/ BatchReturn
    \/ MainRemove

Spec == Init /\ [][Next]_vars

\* batch_redact over a directory with one document, in copy mode after Y and
\* with a fresh log; the document has MaxPages pages or fewer, its last page
\* of MaxPages is any text of Texts and its other pages are drawn from DocTexts
InitDoc ==
    /\ pc = "loop"
    /\ optional_arg = "null"
    /\ answer = "Y"
    /\ confirm = "Y"
    /\ fs = {OrigName(1), LogName} \cup OtherFiles
    /\ logrows = <<Header>>
    /\ todo = find_files_in_dir(fs)
    /\ filepath = None
    /\ f = Unbound
    /\ files = <<>>
    /\ sensitive = <<>>
    /\ exc = "none"
    /\ ClosedDoc
    /\ outcome = <<>>

EarlierPage == pageno + 1 < MaxPages /\ RedactionPage(DocTexts)

LastPage == pageno + 1 = MaxPages /\ RedactionPage(Texts)

NextDoc ==
    \/ BatchNext
    \/ EarlierPage
    \/ LastPage
    \/ RedactionEnd
    \/ BatchExcept
    \/ BatchAfter
    \/ BatchReturn

SpecDoc == InitDoc /\ [][NextDoc]_vars

\* ------------------------------------------------------------------ claims
EndMarkers == {end_redact1, end_redact2, end_redact3}
HasEndMarker(t) == \E e \in EndMarkers : Contains(t, e)

\* the end marker the span is cut at: the last candidate present on the page
ChosenEnd(t) ==
    IF Contains(t, end_redact3) THEN end_redact3
    ELSE IF Contains(t, end_redact2) THEN end_redact2
    ELSE end_redact1

\* a page has been read and its locals are still those of that page
PageRead == pageno >= 1

\* the first start marker ends at or before the first chosen end marker
StartPrecedesEnd(t) ==
    /\ Contains(t, start_redact)
    /\ HasEndMarker(t)
    /\ Index(t, start_redact) + Len(start_redact) <= Index(t, ChosenEnd(t))

Last(s) == s[Len(s)]
HasRow(file, notes) ==
    \E i \in 1..Len(logrows) : logrows[i].File = file /\ logrows[i].Notes = notes
RedactedName(file) == <<file[1], file[2], "_redacted", ".pdf">>
SecretPage == start_redact \o <<"SECRET">> \o end_redact1

\* C1: on every page where the start marker precedes the chosen end marker the
\* located span is exactly what lies between the two: the page text is
\* (text before the start marker) start marker, span, end marker (rest), with
\* neither marker part of the span.
C1_SpanBetweenMarkers ==
    (PageRead /\ StartPrecedesEnd(text)) =>
        LET s == Index(text, start_redact)
            e == Index(text, ChosenEnd(text))
        IN  /\ result # None
            /\ Len(result) = e - (s + Len(start_redact))
            /\ text = SubSeq(text, 1, s) \o start_redact \o result
                      \o SubSeq(text, e + 1, Len(text))

C1_Witness ==
    /\ PageRead
    /\ StartPrecedesEnd(text)
    /\ result = <<"SECRET">>
    /\ ChosenEnd(text) = end_redact3

\* C2: a page with an end marker and no start marker is reported Ambiguous
\* whatever the pages before it: rows with the diagnostic note are written for
\* it, no span is produced and no exception is raised.
C2_AmbiguousPageReported ==
    (PageRead /\ HasEndMarker(text) /\ ~Contains(text, start_redact)) =>
        /\ exc # "UnboundLocalError"
        /\ result = None
        /\ pagerows # <<>>
        /\ \A i \in 1..Len(pagerows) : pagerows[i] = LogRow(filepath, CheckFile)

\* C3: a page with a span that is no placeholder and at least one region
\* removed leaves the document Redacted, whatever its state was; the document
\* whose only page is SecretPage has SECRET located, ends Redacted, is saved
\* under its _redacted name and its path is returned.
C3_SpanRedacted ==
    /\ (PageRead /\ result # None /\ Lower(result) \notin Placeholders
            /\ page_ops.annots >= 1)
        => (file_stat = "Redacted" /\ page_ops.applied)
    /\ (pc = "after" /\ pageno = 1 /\ text = SecretPage /\ page_ops.annots >= 1)
        => /\ result = <<"SECRET">>
           /\ Last(outcome) = [file |-> filepath, stat |-> "Redacted"]
           /\ RedactedName(filepath) \in fs
           /\ f = filepath

C3_Witness ==
    /\ pc = "after"
    /\ pageno = 1
    /\ text = SecretPage
    /\ page_ops.annots >= 1
    /\ f = filepath

\* C4: the document whose only page is "\nStory Link 1" ends Flagged: it is not
\* Redacted, nothing is saved or returned for it, and the log holds a row for
\* the file with the note "CHECK FILE: Potential redaction found but not
\* completed".
C4_EndMarkerOnlyFlagged ==
    (pc = "after" /\ pageno = 1 /\ text = end_redact1) =>
        /\ Last(outcome) = [file |-> filepath, stat |-> "Flagged"]
        /\ file_stat = "Unredacted"
        /\ f = None
        /\ RedactedName(filepath) \notin fs
        /\ HasRow(filepath, {CheckFile})

C4_Witness ==
    /\ pc = "after"
    /\ pageno = 1
    /\ text = end_redact1
    /\ Len(logrows) >= 2

\* "n/a" and "na" in every mix of upper and lower case
AnyCasePlaceholders ==
    {<<x, "/", y>> : x \in {"n", "N"}, y \in {"a", "A"}}
        \cup {<<x, y>> : x \in {"n", "N"}, y \in {"a", "A"}}

\* C5: a page whose span is "n/a" or "na" in any case is neither searched nor
\* committed and leaves the document as it was (a Redacted document stays
\* Redacted, nothing is removed, no file is written); a document with that
\* page alone ends Unredacted, returns nothing and is not saved.
C5_PlaceholderNoOp ==
    /\ [][(pc = "page" /\ pageno' = pageno + 1 /\ result' \in AnyCasePlaceholders)
            => /\ page_ops' = NoOps
               /\ file_stat' = file_stat
               /\ doc_removed' = doc_removed
               /\ fs' = fs]_vars
    /\ []((pc = "after" /\ pageno = 1 /\ result \in AnyCasePlaceholders)
            => /\ Last(outcome) = [file |-> filepath, stat |-> "Unredacted"]
               /\ f = None
               /\ RedactedName(filepath) \notin fs)

C5_Witness ==
    /\ pageno = 2
    /\ result = <<"N", "A">>
    /\ file_stat = "Redacted"
    /\ page_ops = NoOps

\* C6: a page whose span has no region in the page's text layer does not make
\* the document Redacted: a document is Redacted only if a region was removed
\* on one of its pages.
C6_RedactedOnlyIfRemoved ==
    (PageRead /\ file_stat = "Redacted") => doc_removed >= 1

\* C7: a page with both markers whose end marker comes before the end of the
\* start marker is reported Ambiguous with a diagnostic row: no span, empty or
\* not, is applied for it and it does not count as a redaction.
C7_CrossedMarkersAmbiguous ==
    (/\ PageRead
     /\ Contains(text, start_redact)
     /\ HasEndMarker(text)
     /\ Index(text, ChosenEnd(text)) < Index(text, start_redact) + Len(start_redact))
    => /\ result = None
       /\ pagerows # <<>>
       /\ ~page_ops.applied

\* C8: an exception raised while a document is processed is caught and logged
\* for that document, and batch_redact goes on and returns: it never ends in
\* an exception of its own, wherever the failing document stands in the batch.
C8_FailureIsolated ==
    \A i \in 1..Len(outcome) :
        outcome[i].stat = "Failed" =>
            /\ HasRow(outcome[i].file, {NeedsReview})
            /\ ~(pc = "crashed" /\ exc = "UnboundLocalError")

\* C9: when the user answers anything but Y (in either case of the letter) no
\* step of the run creates, changes or deletes a file, the log file included,
\* and none writes a row.
C9_DeclineLeavesNothing ==
    [][LowerTok(answer) # "y" => (fs' = fs /\ logrows' = logrows)]_vars

BatchDone == LowerTok(confirm) = "y" /\ pc \in {"done", "remove"}
NoteRows(file) ==
    {i \in 1..Len(logrows) : logrows[i].File = file /\ logrows[i].Notes # {NoneStr}}

\* C10 as stated: after batch_redact every file that did not end Redacted has
\* a row with a note, and every Redacted file has a row without note and its
\* path in the returned list.
C10_EveryOutcomeLogged ==
    BatchDone =>
        \A i \in 1..Len(outcome) :
            IF outcome[i].stat = "Redacted"
            THEN /\ HasRow(outcome[i].file, {NoneStr})
                 /\ \E j \in 1..Len(files) : files[j] = outcome[i].file
            ELSE NoteRows(outcome[i].file) # {}

\* C10 amended: after batch_redact every Flagged or Failed file has a row with
\* a note, every Redacted file has a row without note and its path in the
\* returned list, and a file that ends Unredacted has no row at all.
C10_OutcomeLoggedButUnredacted ==
    BatchDone =>
        \A i \in 1..Len(outcome) :
            CASE outcome[i].stat = "Redacted" ->
                    /\ HasRow(outcome[i].file, {NoneStr})
                    /\ \E j \in 1..Len(files) : files[j] = outcome[i].file
              [] outcome[i].stat = "Flagged" ->
                    HasRow(outcome[i].file, {CheckFile})
              [] outcome[i].stat = "Failed" ->
                    HasRow(outcome[i].file, {NeedsReview})
              [] OTHER ->
                    \A j \in 1..Len(logrows) : logrows[j].File # outcome[i].file

C10_Witness ==
    /\ BatchDone
    /\ \E i, j \in 1..Len(outcome) :
        /\ outcome[i].stat = "Redacted"
        /\ outcome[j].stat = "Unredacted"

\* C11: an original is deleted only in replace mode, only after the user
\* answered Y, only once its redacted copy is written and only if its outcome
\* was Redacted (so never in copy mode); and the deletion step never fails.
C11_OriginalsDeletedSafely ==
    /\ [][\A o \in fs : (Eligible(o) /\ o \notin fs') =>
            /\ LowerTok(optional_arg) = "replace"
            /\ LowerTok(confirm) = "y"
            /\ RedactedName(o) \in fs
            /\ \E i \in 1..Len(outcome) :
                   outcome[i] = [file |-> o, stat |-> "Redacted"]]_vars
    /\ [](~(pc = "crashed" /\ exc = "FileNotFoundError"))

\* C12: when redaction() is over for a document, its _redacted sibling is on
\* disk exactly if the document's state reached Redacted on some page; a
\* document still Unredacted is not saved and nothing is returned for it.
C12_SavedIffRedacted ==
    pc = "after" =>
        /\ (RedactedName(filepath) \in fs) <=> (file_stat = "Redacted")
        /\ file_stat = "Unredacted" => Last(outcome).stat # "Redacted"

HasSuffixRedacted(name) == Len(name) >= 2 /\ name[Len(name) - 1] = "_redacted"

\* C13: a file whose name ends with _redacted.pdf is never yielded by the
\* enumeration, never processed and never given an outcome, and no file with
\* the suffix twice is ever written.
C13_RedactedFilesSkipped ==
    /\ \A e \in todo : ~HasSuffixRedacted(e)
    /\ filepath # None => ~HasSuffixRedacted(filepath)
    /\ \A i \in 1..Len(outcome) : ~HasSuffixRedacted(outcome[i].file)
    /\ \A i \in 1..Len(files) : ~HasSuffixRedacted(files[i])
    /\ \A name \in fs :
           ~(Len(name) >= 3 /\ name[Len(name) - 1] = "_redacted"
                 /\ name[Len(name) - 2] = "_redacted")

C13_Witness ==
    /\ BatchDone
    /\ todo = {}
    /\ Len(outcome) >= 1
    /\ \E name \in fs : HasSuffixRedacted(name) /\ StartsWith(name, <<"Judge-">>)
    /\ \E name \in fs : HasSuffixRedacted(name) /\ StartsWith(name, <<"Application-">>)

AmbiguousText(t) == HasEndMarker(t) /\ ~Contains(t, start_redact)

\* C14: once a document is Redacted every later page leaves it Redacted and
\* the document is saved when its pages are done; a later Ambiguous page still
\* writes its own audit row.
C14_RedactedIsKept ==
    /\ [][(pc = "page" /\ file_stat = "Redacted" /\ pageno' = pageno + 1) =>
            /\ file_stat' = "Redacted"
            /\ pc' = "page"
            /\ AmbiguousText(text') => HasRow(filepath, {CheckFile})']_vars
    /\ []((pc = "after" /\ file_stat = "Redacted") =>
            /\ RedactedName(filepath) \in fs
            /\ f = filepath)

\* C15: with the start marker and several end-marker candidates on a page,
\* the span is cut at the first occurrence of the last candidate present in
\* the order Story Link 1, Video Upload 1, Publication, wherever the
\* candidates stand in the text.
C15_LastCandidateWins ==
    (/\ PageRead
     /\ Contains(text, start_redact)
     /\ Cardinality({e \in EndMarkers : Contains(text, e)}) >= 2)
    => LET a == Index(text, start_redact) + Len(start_redact)
           b == Index(text, ChosenEnd(text))
       IN  result = IF a <= b THEN SubSeq(text, a + 1, b) ELSE <<>>

C15_Witness ==
    /\ PageRead
    /\ text = start_redact \o end_redact1 \o end_redact2
    /\ result = end_redact1

\* C16: the returned list holds no path twice and only paths of files that
\* ended Redacted, and each of them has exactly one row without note.
C16_ReturnedOncePerRedacted ==
    /\ \A i, j \in 1..Len(files) : files[i] = files[j] => i = j
    /\ \A i \in 1..Len(files) :
        /\ \E k \in 1..Len(outcome) :
               outcome[k] = [file |-> files[i], stat |-> "Redacted"]
        /\ Cardinality({k \in 1..Len(logrows) :
               logrows[k] = LogRow(files[i], NoneStr)}) = 1

\* C17: an Ambiguous page whose diagnostic could be written (see C2) adds
\* exactly one row to the log, however many end-marker candidates it holds.
C17_OneRowPerAmbiguousPage ==
    (PageRead /\ AmbiguousText(text) /\ error # UnboundStr) => Len(pagerows) = 1

====
